---- MODULE Spec2Model ----
(***************************************************************************)
(* carla-nextjs: the route-to-tool pipeline (ApiRouteScanner,              *)
(* ToolGenerator, ToolFixer), the scan, fix and sync commands around       *)
(* carla-tools.json, and the environment loader.                           *)
(*                                                                         *)
(* Strings are sequences of chunks.  A chunk is one character ("a", "_",   *)
(* "/") wherever the code looks inside a string (paths, endpoints, names,  *)
(* parameter names); the fixed pieces of a template literal ("Get ",       *)
(* " by ID") are one chunk each.  Two strings of the program are equal     *)
(* exactly when their chunk sequences are equal, because every string of   *)
(* the model is built from the same literals the code builds it from.      *)
(***************************************************************************)
EXTENDS Naturals, Sequences, FiniteSets, TLC

VARIABLES
    pc,            \* position in the pipeline or in the running command
    relativePath,  \* the route file glob() returned (project-relative)
    handlers,      \* names of the function declarations in the file, in source order
    fileHasAuth,   \* the file's text contains one of the authPatterns
    methods,       \* MethodInfo[] of the scanned route
    tools,         \* the current Tool[] (generated, loaded from carla-tools.json, or fixed)
    original,      \* the Tool[] as generated or loaded, before any fixAll
    inputTools,    \* the Tool[] handed to the last fixAll
    results,       \* FixResult[] of the last fixAll
    passes,        \* number of fixAll passes run so far
    files,         \* the route files glob() returned to scan(), in order
    routes,        \* RouteInfo[] returned by scan()
    options,       \* the command's options: force (scan), dryRun (fix)
    toolsFile,     \* the content of carla-tools.json
    fileBefore,    \* the content of carla-tools.json when the command started
    exit,          \* "running", "ok" (the command returned) or "fail" (process.exit(1))
    uploaded,      \* the Tool[] passed to InterworkyAPI.syncTools, None before any call
    config,        \* the content of .carla/config.json: whether it exists, and its lastSync
    envFiles,      \* the .env files of the project root, by file name
    envBefore,     \* process.env when the CLI started
    processEnv     \* process.env

pipeVars == <<relativePath, handlers, fileHasAuth, methods, tools, original, inputTools, results, passes>>

cmdVars == <<files, routes, options, toolsFile, fileBefore, exit, uploaded, config>>

envVars == <<envFiles, envBefore, processEnv>>

vars == <<pc, pipeVars, cmdVars, envVars>>

---------------------------------------------------------------------------
(* Bounds of the model *)

\* directories between the API directory and the route file
MaxDepth == 2
\* consecutive fixAll passes
MaxPasses == 2

---------------------------------------------------------------------------
(* String primitives of JavaScript, on chunk sequences *)

UpperChars == <<"A","B","C","D","E","F","G","H","I","J","K","L","M",
                "N","O","P","Q","R","S","T","U","V","W","X","Y","Z">>
LowerChars == <<"a","b","c","d","e","f","g","h","i","j","k","l","m",
                "n","o","p","q","r","s","t","u","v","w","x","y","z">>

\* String.prototype.toLowerCase, one character
LowerChar(c) ==
    IF \E i \in DOMAIN UpperChars : UpperChars[i] = c
    THEN LowerChars[CHOOSE i \in DOMAIN UpperChars : UpperChars[i] = c]
    ELSE c

\* String.prototype.toUpperCase, one character
UpperChar(c) ==
    IF \E i \in DOMAIN LowerChars : LowerChars[i] = c
    THEN UpperChars[CHOOSE i \in DOMAIN LowerChars : LowerChars[i] = c]
    ELSE c

ToLowerCase(s) == [i \in DOMAIN s |-> LowerChar(s[i])]

StartsWith(s, p) == Len(p) <= Len(s) /\ SubSeq(s, 1, Len(p)) = p

EndsWith(s, p) == Len(p) <= Len(s) /\ SubSeq(s, Len(s) - Len(p) + 1, Len(s)) = p

\* p occurs in s at position i
MatchAt(s, p, i) == i + Len(p) - 1 <= Len(s) /\ SubSeq(s, i, i + Len(p) - 1) = p

Includes(s, p) == \E i \in 1..(Len(s) + 1) : MatchAt(s, p, i)

\* s.slice(n): s without its first n chunks
DropFirst(s, n) == SubSeq(s, n + 1, Len(s))

\* s.slice(0, -n): s without its last n chunks
DropLast(s, n) == SubSeq(s, 1, Len(s) - n)

\* s.replace(/^p/, r)
ReplacePrefix(s, p, r) == IF StartsWith(s, p) THEN r \o DropFirst(s, Len(p)) ELSE s

\* s.replace(/p$/, '')
StripSuffix(s, p) == IF EndsWith(s, p) THEN DropLast(s, Len(p)) ELSE s

\* s.replace(/[cs]/g, r): every chunk of the class cs becomes r
ReplaceClass(s, cs, r) == [i \in DOMAIN s |-> IF s[i] \in cs THEN r ELSE s[i]]

\* s.replace(/cc+/g, c): every run of two or more c becomes one c; a single c stays
CollapseRuns(s, c) ==
    LET keep(i) == ~(s[i] = c /\ i > 1 /\ s[i - 1] = c)
        idx == SelectSeq([i \in DOMAIN s |-> i], keep)
    IN  [k \in DOMAIN idx |-> s[idx[k]]]

\* s.replace(/^c+|c+$/g, ''): the leading and the trailing run of c removed
RECURSIVE StripLeading(_, _)
StripLeading(s, c) ==
    IF s # <<>> /\ Head(s) = c THEN StripLeading(Tail(s), c) ELSE s

RECURSIVE StripTrailing(_, _)
StripTrailing(s, c) ==
    IF s # <<>> /\ s[Len(s)] = c THEN StripTrailing(DropLast(s, 1), c) ELSE s

StripBoth(s, c) == StripTrailing(StripLeading(s, c), c)

\* s.split(c)
RECURSIVE Split(_, _)
Split(s, c) ==
    IF \E i \in DOMAIN s : s[i] = c
    THEN LET i == CHOOSE i \in DOMAIN s : s[i] = c /\ \A j \in 1..(i - 1) : s[j] # c
         IN  <<SubSeq(s, 1, i - 1)>> \o Split(DropFirst(s, i), c)
    ELSE <<s>>

\* the characters String.prototype.trim removes
Whitespace == {" ", "\t", "\n"}

\* s.trim() === ''
TrimIsEmpty(s) == \A i \in DOMAIN s : s[i] \in Whitespace

\* !s || s.trim() === ''   (an absent field reads as the empty string here)
IsBlank(s) == s = <<>> \/ TrimIsEmpty(s)

\* str.charAt(0).toUpperCase() + str.slice(1)
capitalize(str) == IF str = <<>> THEN <<>> ELSE <<UpperChar(Head(str))>> \o Tail(str)

\* Index of the first "]" of s after position 1, or 0
FirstClose(s) ==
    IF \E k \in 2..Len(s) : s[k] = "]"
    THEN CHOOSE k \in 2..Len(s) : s[k] = "]" /\ \A j \in 2..(k - 1) : s[j] # "]"
    ELSE 0

\* /\[([^\]]+)\]/ matches at the head of s
BracketAtHead(s) == s # <<>> /\ Head(s) = "[" /\ FirstClose(s) >= 3

\* s.replace(/\[([^\]]+)\]/g, ':$1')
RECURSIVE ReplaceBrackets(_)
ReplaceBrackets(s) ==
    IF s = <<>> THEN <<>>
    ELSE IF BracketAtHead(s)
         THEN LET k == FirstClose(s)
              IN  <<":">> \o SubSeq(s, 2, k - 1) \o ReplaceBrackets(DropFirst(s, k))
         ELSE <<Head(s)>> \o ReplaceBrackets(Tail(s))

\* a variant of BracketMatches without the g flag: the first match only
BracketMatches_FirstOnly(s) ==
    IF \E i \in DOMAIN s : BracketAtHead(DropFirst(s, i - 1))
    THEN LET i == CHOOSE i \in DOMAIN s :
                      /\ BracketAtHead(DropFirst(s, i - 1))
                      /\ \A j \in 1..(i - 1) : ~BracketAtHead(DropFirst(s, j - 1))
         IN  <<SubSeq(s, i + 1, i + FirstClose(DropFirst(s, i - 1)) - 2)>>
    ELSE <<>>

\* [...s.matchAll(/\[([^\]]+)\]/g)].map(m => m[1])
RECURSIVE BracketMatches(_)
BracketMatches(s) ==
    IF s = <<>> THEN <<>>
    ELSE IF BracketAtHead(s)
         THEN LET k == FirstClose(s)
              IN  <<SubSeq(s, 2, k - 1)>> \o BracketMatches(DropFirst(s, k))
         ELSE BracketMatches(Tail(s))

---------------------------------------------------------------------------
(* ApiRouteScanner *)

Extensions == {<<"t","s">>, <<"j","s">>, <<"t","s","x">>, <<"j","s","x">>}

\* relativePath.replace(/\.(ts|js|tsx|jsx)$/, '')
StripExtension(p) ==
    IF \E e \in Extensions : EndsWith(p, <<".">> \o e)
    THEN LET e == CHOOSE e \in Extensions : EndsWith(p, <<".">> \o e)
         IN  DropLast(p, Len(e) + 1)
    ELSE p

AppApi   == <<"a","p","p","/","a","p","i","/">>
PagesApi == <<"p","a","g","e","s","/","a","p","i","/">>
SrcDir   == <<"s","r","c","/">>
ApiPrefix == <<"/","a","p","i">>

\* endpoint.replace(/^(src\/)?dir/, '/')
StripApiDir(s, dir) ==
    IF StartsWith(s, SrcDir \o dir) THEN ReplacePrefix(s, SrcDir \o dir, <<"/">>)
    ELSE ReplacePrefix(s, dir, <<"/">>)

\* Remove file extension and 'route' filename
StripFileName(p) ==
    StripSuffix(StripSuffix(StripExtension(p), <<"/","r","o","u","t","e">>),
                <<"/","i","n","d","e","x">>)

\* Ensure it starts with /api
EnsureApiPrefix(e) == IF ~StartsWith(e, ApiPrefix) THEN ApiPrefix \o e ELSE e

\* endpoint || '/api'
OrApi(e) == IF e = <<>> THEN ApiPrefix ELSE e

pathToEndpoint(p) ==
    OrApi(EnsureApiPrefix(ReplaceBrackets(
        StripApiDir(StripApiDir(StripFileName(p), AppApi), PagesApi))))

extractParams(p) ==
    LET names == BracketMatches(p)
    IN  [i \in DOMAIN names |->
            [name |-> names[i], type |-> "string", required |-> TRUE,
             description |-> <<"The ">> \o names[i] \o <<" parameter">>]]

\* extractBodyParams visits the handler's body and pushes nothing
extractBodyParams == <<>>

HttpMethods == {<<"G","E","T">>, <<"P","O","S","T">>, <<"P","U","T">>,
                <<"D","E","L","E","T","E">>, <<"P","A","T","C","H">>}

GET    == <<"G","E","T">>
POST   == <<"P","O","S","T">>
PUT    == <<"P","U","T">>
DELETE == <<"D","E","L","E","T","E">>
PATCH  == <<"P","A","T","C","H">>

\* extractMethods: one MethodInfo per function declaration named after an HTTP method
extractMethods(decls, hasAuth, p) ==
    LET hits == SelectSeq(decls, LAMBDA d : d \in HttpMethods)
    IN  [i \in DOMAIN hits |->
            [method |-> hits[i], endpoint |-> pathToEndpoint(p),
             params |-> extractParams(p), bodyParams |-> extractBodyParams,
             hasAuth |-> hasAuth]]

---------------------------------------------------------------------------
(* Optional fields (fixed_params?, auth?, issues?) *)

None == <<>>
Some(v) == <<v>>
IsSome(o) == o # <<>>
Get(o) == o[1]

---------------------------------------------------------------------------
(* An object's properties keep insertion order: a sequence of entries with     *)
(* distinct names.                                                             *)

HasKey(props, n) == \E i \in DOMAIN props : props[i].name = n

Keys(props) == {props[i].name : i \in DOMAIN props}

\* a variant of SetProperty that assigns a fresh object holding only the new entry
SetProperty_Overwrite(props, e) == <<e>>

\* properties[e.name] = {type, description}
SetProperty(props, e) ==
    IF HasKey(props, e.name)
    THEN [i \in DOMAIN props |-> IF props[i].name = e.name THEN e ELSE props[i]]
    ELSE Append(props, e)

\* a || b on strings
OrElse(a, b) == IF a = <<>> THEN b ELSE a

---------------------------------------------------------------------------
(* ToolGenerator *)

Resource == <<"r","e","s","o","u","r","c","e">>

GenExtractResourceName(endpoint) ==
    LET name     == ReplacePrefix(endpoint, ApiPrefix, <<>>)
        segments == SelectSeq(Split(name, "/"), LAMBDA s : s # <<>> /\ ~StartsWith(s, <<":">>))
    IN  IF segments = <<>> THEN Resource
        ELSE LET resourceName == segments[Len(segments)]
             IN  IF EndsWith(resourceName, <<"s">>) /\ Len(resourceName) > 2
                 THEN DropLast(resourceName, 1)
                 ELSE resourceName

\* Handle common patterns: name.replace(/_id$/, '').replace(/_$/, '')
StripIdPattern(name) ==
    IF Includes(name, <<"_","i","d">>) \/ EndsWith(name, <<"_">>)
    THEN StripSuffix(StripSuffix(name, <<"_","i","d">>), <<"_">>)
    ELSE name

\* if (!name) name = 'root'
OrRoot(name) == IF name = <<>> THEN <<"r","o","o","t">> ELSE name

generateToolName(endpoint, method) ==
    CollapseRuns(
        ToLowerCase(method) \o <<"_">>
        \o OrRoot(StripIdPattern(ReplaceClass(
               ReplacePrefix(ReplacePrefix(endpoint, ApiPrefix, <<>>), <<"/">>, <<>>),
               {"/", ":", "-"}, "_"))),
        "_")

GenGenerateDescription(endpoint, method) ==
    LET resource == GenExtractResourceName(endpoint)
    IN  CASE method = GET ->
               IF Includes(endpoint, <<":","i","d">>) \/ Includes(endpoint, <<":">>)
               THEN <<"Get ">> \o resource \o <<" by ID">>
               ELSE <<"List all ">> \o resource
          [] method = POST   -> <<"Create a new ">> \o resource
          [] method = PUT    -> <<"Update ">> \o resource \o <<" by ID">>
          [] method = PATCH  -> <<"Partially update ">> \o resource \o <<" by ID">>
          [] method = DELETE -> <<"Delete ">> \o resource \o <<" by ID">>
          [] OTHER -> method \o <<" ">> \o endpoint

GenGenerateInstruction(endpoint, method) ==
    LET resource == GenExtractResourceName(endpoint)
    IN  CASE method = GET ->
               IF Includes(endpoint, <<":","i","d">>)
               THEN <<"Use this tool when the user asks about a specific ">> \o resource
                        \o <<". Requires the ID.">>
               ELSE <<"Use this tool when the user asks to see all ">> \o resource
                        \o <<" or list ">> \o resource \o <<".">>
          [] method = POST ->
               <<"Use this tool when the user wants to create or add a new ">> \o resource \o <<".">>
          [] method = PUT ->
               <<"Use this tool when the user wants to update or modify a ">> \o resource \o <<".">>
          [] method = PATCH ->
               <<"Use this tool when the user wants to make partial updates to a ">> \o resource \o <<".">>
          [] method = DELETE ->
               <<"(warning sign) Destructive operation. Only use when user explicitly requests deletion of a ">>
                   \o resource \o <<".">>
          [] OTHER ->
               <<"Call this tool for ">> \o method \o <<" operations on ">> \o endpoint

\* a variant of shouldEnableByDefault that compares with the lower-case verb
shouldEnableByDefault_LowerCase(method) ==
    IF method = <<"d","e","l","e","t","e">> THEN FALSE ELSE TRUE

\* a variant of shouldEnableByDefault that enables every verb
shouldEnableByDefault_Always(method) == TRUE

shouldEnableByDefault(method) == IF method = DELETE THEN FALSE ELSE TRUE

\* the loop `for (const param of ps) { properties[param.name] = ...; if (param.required) required.push(...) }`
RECURSIVE AddParams(_, _, _)
AddParams(acc, ps, suffix) ==
    IF ps = <<>> THEN acc
    ELSE LET param == Head(ps)
             entry == [name |-> param.name, type |-> param.type,
                       description |-> OrElse(param.description,
                                              <<"The ">> \o param.name \o suffix)]
         IN  AddParams([properties |-> SetProperty(acc.properties, entry),
                        required   |-> IF param.required
                                       THEN Append(acc.required, param.name)
                                       ELSE acc.required],
                       Tail(ps), suffix)

\* a variant of MergeBodyParams that adds the body params whatever the verb
MergeBodyParams_AnyVerb(acc, method) == AddParams(acc, method.bodyParams, <<" field">>)

\* Add body params for POST/PUT/PATCH
MergeBodyParams(acc, method) ==
    IF method.method \in {POST, PUT, PATCH}
    THEN AddParams(acc, method.bodyParams, <<" field">>)
    ELSE acc

\* a variant of DetectIssues whose second check is an else-branch of the first
DetectIssues_ElseIf(method) ==
    IF method.method = DELETE THEN <<"destructive_operation">>
    ELSE IF ~method.hasAuth /\ method.method \in {POST, PUT, DELETE, PATCH}
         THEN <<"no_authentication_detected">>
         ELSE <<>>

\* the issues detected at generation time
DetectIssues(method) ==
    (IF method.method = DELETE THEN <<"destructive_operation">> ELSE <<>>)
    \o (IF ~method.hasAuth /\ method.method \in {POST, PUT, DELETE, PATCH}
        THEN <<"no_authentication_detected">> ELSE <<>>)

generateTool(routePath, method) ==
    LET toolName == generateToolName(method.endpoint, method.method)
        path     == AddParams([properties |-> <<>>, required |-> <<>>],
                              method.params, <<" parameter">>)
        merged   == MergeBodyParams(path, method)
    IN  [id          |-> toolName,
         name        |-> toolName,
         description |-> GenGenerateDescription(method.endpoint, method.method),
         instruction |-> GenGenerateInstruction(method.endpoint, method.method),
         source      |-> routePath,
         enabled     |-> shouldEnableByDefault(method.method),
         method      |-> method.method,
         endpoint    |-> method.endpoint,
         parameters  |-> [type |-> "object", properties |-> merged.properties,
                          required |-> merged.required],
         fixed_params |-> None,
         auth        |-> IF method.hasAuth THEN Some("required") ELSE None,
         issues      |-> Some(DetectIssues(method))]

\* generate: one tool per method of the route, in order
generate(routePath, ms) == [i \in DOMAIN ms |-> generateTool(routePath, ms[i])]

---------------------------------------------------------------------------
(* ToolFixer *)

FixExtractResourceName(endpoint) ==
    LET name     == ReplacePrefix(endpoint, ApiPrefix, <<>>)
        segments == SelectSeq(Split(name, "/"),
                              LAMBDA s : s # <<>> /\ ~StartsWith(s, <<":">>)
                                                  /\ ~StartsWith(s, <<"{">>))
    IN  IF segments = <<>> THEN Resource
        ELSE LET resourceName == segments[Len(segments)]
             IN  IF EndsWith(resourceName, <<"s">>) /\ Len(resourceName) > 2
                 THEN DropLast(resourceName, 1)
                 ELSE resourceName

FixGenerateDescription(tool) ==
    LET resource == FixExtractResourceName(tool.endpoint)
        method   == tool.method
    IN  CASE method = GET ->
               IF Includes(tool.endpoint, <<":","i","d">>)
                  \/ Includes(tool.endpoint, <<"{","i","d","}">>)
               THEN <<"Retrieve ">> \o resource \o <<" by ID">>
               ELSE <<"List all ">> \o resource
          [] method = POST   -> <<"Create a new ">> \o resource
          [] method = PUT    -> <<"Update ">> \o resource \o <<" by ID">>
          [] method = PATCH  -> <<"Partially update ">> \o resource \o <<" by ID">>
          [] method = DELETE -> <<"Delete ">> \o resource \o <<" by ID">>
          [] OTHER -> method \o <<" operation on ">> \o resource

FixGenerateInstruction(tool) ==
    LET resource == FixExtractResourceName(tool.endpoint)
        method   == tool.method
    IN  CASE method = GET ->
               IF Includes(tool.endpoint, <<":","i","d">>)
               THEN <<"Use this tool when the user asks about a specific ">> \o resource
                        \o <<". Requires the ID parameter.">>
               ELSE <<"Use this tool when the user asks to see all ">> \o resource
                        \o <<" or list ">> \o resource \o <<".">>
          [] method = POST ->
               <<"Use this tool when the user wants to create or add a new ">> \o resource \o <<".">>
          [] method = PUT ->
               <<"Use this tool when the user wants to completely update a ">> \o resource \o <<".">>
          [] method = PATCH ->
               <<"Use this tool when the user wants to make partial updates to a ">> \o resource \o <<".">>
          [] method = DELETE ->
               <<"(warning sign) Destructive operation. Only use when user explicitly requests deletion of a ">>
                   \o resource \o <<". Confirm before executing.">>
          [] OTHER ->
               <<"Use this tool for ">> \o method \o <<" operations on ">> \o resource \o <<".">>

\* name.replace(/_id|Id$/, ''): the leftmost match of "_id", or of "Id" at the end
StripIdSuffix(name) ==
    LET hit(i) == MatchAt(name, <<"_","i","d">>, i)
                  \/ (MatchAt(name, <<"I","d">>, i) /\ i + 1 = Len(name))
    IN  IF \E i \in DOMAIN name : hit(i)
        THEN LET i == CHOOSE i \in DOMAIN name : hit(i) /\ \A j \in 1..(i - 1) : ~hit(j)
                 n == IF MatchAt(name, <<"_","i","d">>, i) THEN 3 ELSE 2
             IN  SubSeq(name, 1, i - 1) \o DropFirst(name, i + n - 1)
        ELSE name

generateParameterDescription(name, type, tool) ==
    CASE name = <<"i","d">> ->
           <<"Unique identifier for the ">> \o FixExtractResourceName(tool.endpoint)
      [] name # <<"i","d">> /\ (EndsWith(name, <<"_","i","d">>) \/ EndsWith(name, <<"I","d">>)) ->
           <<"Unique identifier for the ">> \o StripIdSuffix(name)
      [] name = <<"e","m","a","i","l">> -> <<"Email address">>
      [] name = <<"p","a","s","s","w","o","r","d">> -> <<"Password (minimum 8 characters)">>
      [] name = <<"n","a","m","e">> -> <<"Name">>
      [] name = <<"d","e","s","c","r","i","p","t","i","o","n">> -> <<"Description or additional details">>
      [] name = <<"s","t","a","t","u","s">> -> <<"Current status">>
      [] name \in {<<"c","r","e","a","t","e","d","_","a","t">>,
                   <<"c","r","e","a","t","e","d","A","t">>} -> <<"Creation timestamp">>
      [] name \in {<<"u","p","d","a","t","e","d","_","a","t">>,
                   <<"u","p","d","a","t","e","d","A","t">>} -> <<"Last update timestamp">>
      [] OTHER ->
           CASE type = "string"  -> capitalize(name) \o <<" (string)">>
             [] type \in {"number", "integer"} -> capitalize(name) \o <<" (numeric value)">>
             [] type = "boolean" -> capitalize(name) \o <<" (true/false)">>
             [] type = "array"   -> <<"Array of ">> \o name
             [] type = "object"  -> capitalize(name) \o <<" object">>
             [] OTHER -> capitalize(ReplaceClass(name, {"_", "-"}, " "))

\* the test of fixParameterDescriptions on one property
NeedsParamDescription(prop) ==
    \/ IsBlank(prop.description)
    \/ prop.description = <<"The ">> \o prop.name \o <<" parameter">>

\* a variant of fixParameterDescriptions that also retypes the properties it describes
fixParameterDescriptions_Retyped(tool) ==
    LET props == tool.parameters.properties
        fixedProps == [i \in DOMAIN props |->
                          IF NeedsParamDescription(props[i])
                          THEN [name |-> props[i].name, type |-> "string",
                                description |->
                                   generateParameterDescription(props[i].name, props[i].type, tool)]
                          ELSE props[i]]
        count == Cardinality({i \in DOMAIN props : NeedsParamDescription(props[i])})
    IN  [tool  |-> IF count > 0 THEN [tool EXCEPT !.parameters.properties = fixedProps] ELSE tool,
         count |-> count]

fixParameterDescriptions(tool) ==
    LET props == tool.parameters.properties
        fixedProps == [i \in DOMAIN props |->
                          IF NeedsParamDescription(props[i])
                          THEN [props[i] EXCEPT !.description =
                                   generateParameterDescription(props[i].name, props[i].type, tool)]
                          ELSE props[i]]
        count == Cardinality({i \in DOMAIN props : NeedsParamDescription(props[i])})
    IN  [tool  |-> IF count > 0 THEN [tool EXCEPT !.parameters.properties = fixedProps] ELSE tool,
         count |-> count]

hasNamingIssues(name) ==
    \/ Includes(name, <<"_","_">>)
    \/ StartsWith(name, <<"_">>) \/ EndsWith(name, <<"_">>)
    \/ name # ToLowerCase(name)

\* a variant of fixNaming that leaves leading and trailing underscores
fixNaming_NoTrim(name) == CollapseRuns(ToLowerCase(name), "_")

fixNaming(name) == StripBoth(CollapseRuns(ToLowerCase(name), "_"), "_")

\* [...new Set(issues)]: the first occurrence of each issue, in order
Dedupe(issues) ==
    LET first(i) == \A j \in 1..(i - 1) : issues[j] # issues[i]
        idx == SelectSeq([i \in DOMAIN issues |-> i], first)
    IN  [k \in DOMAIN idx |-> issues[idx[k]]]

\* a variant of filterUnresolvedIssues that returns no issues once the tool is fully described
filterUnresolvedIssues_ClearAll(tool) ==
    IF ~IsSome(tool.issues) THEN <<>>
    ELSE IF ~IsBlank(tool.description)
            /\ \A i \in DOMAIN tool.parameters.properties :
                   ~IsBlank(tool.parameters.properties[i].description)
         THEN <<>>
         ELSE Get(tool.issues)

filterUnresolvedIssues(tool) ==
    IF ~IsSome(tool.issues) THEN <<>>
    ELSE LET props == tool.parameters.properties
             allParamsHaveDescriptions == \A i \in DOMAIN props : ~IsBlank(props[i].description)
             resolvedIssues ==
                 (IF ~IsBlank(tool.description) THEN {"missing_description"} ELSE {})
                 \cup (IF allParamsHaveDescriptions THEN {"missing_parameter_descriptions"} ELSE {})
         IN  SelectSeq(Get(tool.issues), LAMBDA issue : issue \notin resolvedIssues)

\* The steps of fixTool, in order; acc is the pair (fixedTool, fixes) the code updates

\* Fix missing descriptions
FixDescriptionStep(acc) ==
    IF IsBlank(acc.tool.description)
    THEN [tool  |-> [acc.tool EXCEPT !.description = FixGenerateDescription(acc.tool)],
          fixes |-> Append(acc.fixes, <<"Added missing description">>)]
    ELSE acc

\* Fix missing instructions
FixInstructionStep(acc) ==
    IF IsBlank(acc.tool.instruction)
    THEN [tool  |-> [acc.tool EXCEPT !.instruction = FixGenerateInstruction(acc.tool)],
          fixes |-> Append(acc.fixes, <<"Added missing instruction">>)]
    ELSE acc

\* the use fixTool makes of paramFixes
ApplyParamFixes(acc, paramFixes) ==
    IF paramFixes.count > 0
    THEN [tool  |-> paramFixes.tool,
          fixes |-> Append(acc.fixes,
                           <<"Fixed ", ToString(paramFixes.count), " parameter descriptions">>)]
    ELSE acc

\* Fix parameter descriptions
FixParamsStep(acc) == ApplyParamFixes(acc, fixParameterDescriptions(acc.tool))

\* Fix naming conventions
FixNamingStep(acc) ==
    IF hasNamingIssues(acc.tool.name)
    THEN [tool  |-> [acc.tool EXCEPT !.name = fixNaming(acc.tool.name),
                                     !.id   = fixNaming(acc.tool.name)],
          fixes |-> Append(acc.fixes,
                           <<"Fixed naming: ">> \o acc.tool.name \o <<" -> ">>
                               \o fixNaming(acc.tool.name))]
    ELSE acc

\* Remove duplicate issues
DedupeStep(acc) ==
    IF IsSome(acc.tool.issues)
    THEN [acc EXCEPT !.tool.issues = Some(Dedupe(Get(acc.tool.issues)))]
    ELSE acc

\* Clear resolved issues
ClearResolvedStep(acc) == [acc EXCEPT !.tool.issues = Some(filterUnresolvedIssues(acc.tool))]

FixResultOf(acc) == [tool |-> acc.tool, fixed |-> Len(acc.fixes) > 0, fixes |-> acc.fixes]

fixTool(tool) ==
    FixResultOf(ClearResolvedStep(DedupeStep(FixNamingStep(FixParamsStep(
        FixInstructionStep(FixDescriptionStep([tool |-> tool, fixes |-> <<>>])))))))

\* a variant of fixAll that returns results for the tools it changed only
fixAll_FixedOnly(ts) ==
    SelectSeq([i \in DOMAIN ts |-> fixTool(ts[i])], LAMBDA r : r.fixed)

fixAll(ts) == [i \in DOMAIN ts |-> fixTool(ts[i])]

---------------------------------------------------------------------------
(* Inputs: the route files glob() can return *)

\* directory names below the API directory
Segments == { <<"u","s","e","r","s">>,
              <<"[","i","d","]">>,
              <<"[","u","s","e","r","I","d","]">>,
              <<"a","p","i","s">>,
              <<"x","-">> }

\* file names (without extension) the pages patterns match
PageFiles == { <<"i","n","d","e","x">>, <<"[","i","d","]">>, <<"u","s","e","r","s">> }

InputExtensions == { <<"t","s">>, <<"j","s","x">> }

DirLists == UNION { [1..n -> Segments] : n \in 0..MaxDepth }

RECURSIVE JoinDirs(_)
JoinDirs(ds) == IF ds = <<>> THEN <<>> ELSE Head(ds) \o <<"/">> \o JoinDirs(Tail(ds))

\* 'app/api/**/route.{ts,js,tsx,jsx}' and 'src/app/api/**/route.{ts,js,tsx,jsx}'
AppRoutePaths ==
    { src \o AppApi \o JoinDirs(ds) \o <<"r","o","u","t","e",".">> \o e :
        src \in {<<>>, SrcDir}, ds \in DirLists, e \in InputExtensions }

\* 'pages/api/**/*.{ts,js,tsx,jsx}' and 'src/pages/api/**/*.{ts,js,tsx,jsx}'
PagesRoutePaths ==
    { src \o PagesApi \o JoinDirs(ds) \o f \o <<".">> \o e :
        src \in {<<>>, SrcDir}, ds \in DirLists, f \in PageFiles, e \in InputExtensions }

RoutePaths == AppRoutePaths \cup PagesRoutePaths

\* the function declarations of a route file, in source order
HandlerLists == { <<GET>>, <<POST>>, <<PUT>>, <<DELETE>>, <<PATCH>>, <<GET, DELETE>>,
                  <<<<"h","e","l","p","e","r">>>> }

---------------------------------------------------------------------------
(* Inputs: the tools a carla-tools.json can hold (written by scan, pulled from  *)
(* the server by methodToTool, or edited by hand)                              *)

ToolNames == { <<"g","e","t","_","u">>, <<"G","e","t","_","_","U","_">>,
               <<"_","_","A","_","b","_","_">> }

OtherId == <<"m","1">>

Blank == <<" ">>

ToolDescriptions == { <<>>, Blank, <<"Fetch a user">> }

ToolInstructions == { <<>>, <<"Call it for users">> }

UsersById     == ApiPrefix \o <<"/","u","s","e","r","s","/",":","i","d">>
UsersByUserId == ApiPrefix \o <<"/","u","s","e","r","s","/",":","u","s","e","r","I","d">>
Users         == ApiPrefix \o <<"/","u","s","e","r","s">>

MethodEndpoints ==
    { <<m, UsersById>> : m \in HttpMethods }
    \cup { <<GET, Users>>, <<GET, UsersByUserId>>, <<POST, ApiPrefix>> }

IssueLists ==
    { None,
      Some(<<"destructive_operation", "no_authentication_detected">>),
      Some(<<"missing_description", "destructive_operation", "destructive_operation">>),
      Some(<<"missing_parameter_descriptions", "no_authentication_detected">>) }

ParamNames == { <<"i","d">>, <<"u","s","e","r","I","d">>, <<"_">> }

ParamTypes == { "string", "any" }

ParamDescriptions(n) == { <<>>, <<"The ">> \o n \o <<" parameter">>, <<"Custom">> }

PropertyEntries ==
    { [name |-> n, type |-> t, description |-> d] :
        n \in ParamNames, t \in ParamTypes, d \in UNION { ParamDescriptions(m) : m \in ParamNames } }

PropertyLists ==
    { <<>> }
    \cup { <<e>> : e \in { x \in PropertyEntries : x.description \in ParamDescriptions(x.name) } }
    \cup { << [name |-> <<"i","d">>, type |-> "string", description |-> <<>>],
              [name |-> <<"l","i","m","i","t">>, type |-> "number", description |-> <<"Page size">>] >> }

\* the names of the properties, in order
KeySeq(props) == [i \in DOMAIN props |-> props[i].name]

ToolInputs ==
    { [id          |-> IF sameId THEN n ELSE OtherId,
       name        |-> n,
       description |-> d,
       instruction |-> ins,
       source      |-> <<"synced">>,
       enabled     |-> me[1] # DELETE,
       method      |-> me[1],
       endpoint    |-> me[2],
       parameters  |-> [type |-> "object", properties |-> ps, required |-> KeySeq(ps)],
       fixed_params |-> None,
       auth        |-> None,
       issues      |-> iss] :
        n \in ToolNames, sameId \in BOOLEAN, d \in ToolDescriptions, ins \in ToolInstructions,
        me \in MethodEndpoints, ps \in PropertyLists, iss \in IssueLists }

\* a well-formed tool that needs no fix
CleanTool ==
    [id |-> <<"g","e","t","_","u">>, name |-> <<"g","e","t","_","u">>,
     description |-> <<"Fetch a user">>, instruction |-> <<"Call it for users">>,
     source |-> <<"synced">>, enabled |-> TRUE, method |-> GET, endpoint |-> UsersById,
     parameters |-> [type |-> "object", properties |-> <<>>, required |-> <<>>],
     fixed_params |-> None, auth |-> None, issues |-> Some(<<>>)]

\* tools that need every fix, enabled or not, with auth, fixed_params and a source of their own
FrameTools ==
    { [t EXCEPT !.enabled = en,
                !.auth = Some(<<"bearer">>),
                !.fixed_params = Some(<<[name |-> <<"tenant">>, value |-> <<"t1">>]>>),
                !.source = <<"manual">>] :
        en \in BOOLEAN,
        t \in { x \in ToolInputs :
                  /\ x.name = <<"G","e","t","_","_","U","_">> /\ x.id = OtherId
                  /\ x.description = <<>> /\ x.instruction = <<>>
                  /\ x.issues = Some(<<"missing_parameter_descriptions", "no_authentication_detected">>)
                  /\ x.parameters.properties
                        = <<[name |-> <<"_">>, type |-> "any", description |-> <<>>]>> } }

ToolLists ==
    { <<t>> : t \in ToolInputs } \cup { <<CleanTool, t>> : t \in ToolInputs }
    \cup { <<t>> : t \in FrameTools }

---------------------------------------------------------------------------
(* carla-tools.json and ConfigManager *)

\* What carla-tools.json holds.  kind is "absent" (no such file), "invalid"
\* (reading it or JSON.parse throws), "null" (the JSON text null), "falsy"
\* (the JSON texts false, 0 and ""), or "object": any other JSON value, whose
\* members version, generatedAt, tools and settings are None when the value
\* has no such member (an array, a number or {} has none of them).
FileOf(kind, version, generatedAt, ts, settings) ==
    [kind |-> kind, version |-> version, generatedAt |-> generatedAt,
     tools |-> ts, settings |-> settings]

AbsentFile  == FileOf("absent", None, None, None, None)
InvalidFile == FileOf("invalid", None, None, None, None)
NullFile    == FileOf("null", None, None, None, None)
FalsyFile   == FileOf("falsy", None, None, None, None)

\* loadTools: null when the file is missing or cannot be read or parsed, else the parsed value
loadTools(file) == IF file.kind \in {"absent", "invalid"} THEN NullFile ELSE file

\* a variant of hasTools that never finds tools
hasTools_Never(file) == FALSE

\* hasTools: loadTools() !== null
hasTools(file) == loadTools(file).kind # "null"

\* !toolsConfig
IsFalsy(value) == value.kind \in {"null", "falsy"}

\* the ToolsConfig scanCommand builds
NewToolsConfig(ts) ==
    FileOf("object", Some("1.0.0"), Some("now"), Some(ts), Some("/api/_carla/mcp"))

\* { ...toolsConfig, tools, generatedAt: new Date().toISOString() }
UpdatedConfig(toolsConfig, ts) ==
    [toolsConfig EXCEPT !.tools = Some(ts), !.generatedAt = Some("now")]

\* .carla/config.json
NoConfig == [exists |-> FALSE, lastSync |-> None]

NoOptions == [force |-> FALSE, dryRun |-> FALSE]

\* '.env', `.env.${nodeEnv}` and '.env.local'
EnvFileNames == { <<".env">>, <<".env.", "development">>, <<".env.", "production">>,
                  <<".env.local">> }

EnvKeys == {"NODE_ENV", "NEXT_PUBLIC_CARLA_API_KEY", "API_URL"}

NoEnvFiles == [f \in EnvFileNames |-> None]

EmptyEnv == [k \in EnvKeys |-> None]

\* no command is running and no environment is loaded
NoCommand ==
    /\ files = <<>>
    /\ routes = <<>>
    /\ options = NoOptions
    /\ toolsFile = AbsentFile
    /\ fileBefore = AbsentFile
    /\ exit = "running"
    /\ uploaded = None
    /\ config = NoConfig

NoEnv ==
    /\ envFiles = NoEnvFiles
    /\ envBefore = EmptyEnv
    /\ processEnv = EmptyEnv

\* no pipeline run is in progress
NoPipeline ==
    /\ relativePath = <<>>
    /\ handlers = <<>>
    /\ fileHasAuth = FALSE
    /\ methods = <<>>
    /\ tools = <<>>
    /\ original = <<>>
    /\ inputTools = <<>>
    /\ results = <<>>
    /\ passes = 0

---------------------------------------------------------------------------
(* The pipeline *)

scanVars == <<relativePath, handlers, fileHasAuth>>

\* a route file discovered by scan()
Init ==
    /\ pc = "found"
    /\ relativePath \in RoutePaths
    /\ handlers \in HandlerLists
    /\ fileHasAuth \in BOOLEAN
    /\ methods = <<>>
    /\ tools = <<>>
    /\ original = <<>>
    /\ inputTools = <<>>
    /\ results = <<>>
    /\ passes = 0
    /\ NoCommand
    /\ NoEnv

\* a carla-tools.json read by loadTools()
InitFix ==
    /\ pc = "loaded"
    /\ relativePath = <<>>
    /\ handlers = <<>>
    /\ fileHasAuth = FALSE
    /\ methods = <<>>
    /\ tools \in ToolLists
    /\ original = tools
    /\ inputTools = <<>>
    /\ results = <<>>
    /\ passes = 0
    /\ NoCommand
    /\ NoEnv

\* scanRoute: a route without methods is dropped
ScanRoute ==
    /\ pc = "found"
    /\ methods' = extractMethods(handlers, fileHasAuth, relativePath)
    /\ pc' = IF methods' = <<>> THEN "dropped" ELSE "scanned"
    /\ UNCHANGED <<scanVars, tools, original, inputTools, results, passes, cmdVars, envVars>>

\* ToolGenerator.generate on the scanned route
Generate ==
    /\ pc = "scanned"
    /\ tools' = generate(relativePath, methods)
    /\ original' = tools'
    /\ pc' = "generated"
    /\ UNCHANGED <<scanVars, methods, inputTools, results, passes, cmdVars, envVars>>

\* ToolFixer.fixAll on the current tools; the fixed tools become the current ones
FixAll ==
    /\ pc \in {"generated", "loaded", "fixed"}
    /\ passes < MaxPasses
    /\ inputTools' = tools
    /\ results' = fixAll(tools)
    /\ tools' = [i \in DOMAIN results' |-> results'[i].tool]
    /\ passes' = passes + 1
    /\ pc' = "fixed"
    /\ UNCHANGED <<scanVars, methods, original, cmdVars, envVars>>

Next == ScanRoute \/ Generate \/ FixAll

Spec == Init /\ [][Next]_vars

NextFix == FixAll

SpecFix == InitFix /\ [][NextFix]_vars

---------------------------------------------------------------------------
(* ApiRouteScanner.scan over the files glob() returns *)

\* A function declaration of a source file, in the order visit() reaches it:
\* its name, whether it carries the export modifier, and whether it sits in
\* the body of another function.
Decl(name, exported, nested) == [name |-> name, exported |-> exported, nested |-> nested]

Helper == <<"h","e","l","p","e","r">>

\* visit() tests every FunctionDeclaration node that has a name, whatever its
\* modifiers and wherever forEachChild reaches it
FunctionDeclarations(decls) == [i \in DOMAIN decls |-> decls[i].name]

\* A discovered file.  status is "ok", "syntaxError" (createSourceFile keeps the
\* declarations it can recover and reports diagnostics, it does not throw),
\* "missing" (existsSync is false) or "unreadable" (readFileSync throws).
RouteFile(p, status, decls) ==
    [relativePath |-> p, status |-> status, decls |-> decls, hasAuth |-> FALSE]

\* readFileSync(filePath, 'utf-8') throws
ReadThrows(file) == file.status = "unreadable"

\* scanRoute: null (None) or the RouteInfo of the file
scanRoute(file) ==
    IF file.status = "missing" THEN None
    ELSE LET ms == extractMethods(FunctionDeclarations(file.decls), file.hasAuth,
                                  file.relativePath)
         IN  IF ms = <<>> THEN None
             ELSE Some([relativePath |-> file.relativePath, methods |-> ms])

\* an exception leaves scan(): nothing in scan or scanRoute catches it
scanThrows(fs) == \E i \in DOMAIN fs : ReadThrows(fs[i])

\* scan: the routes of the files, in order, where no read throws
RECURSIVE scan(_)
scan(fs) == IF fs = <<>> THEN <<>> ELSE scanRoute(Head(fs)) \o scan(Tail(fs))

\* ToolGenerator.generate over all routes: the tools of each route, in order
RECURSIVE generateRoutes(_)
generateRoutes(rs) ==
    IF rs = <<>> THEN <<>>
    ELSE generate(Head(rs).relativePath, Head(rs).methods) \o generateRoutes(Tail(rs))

---------------------------------------------------------------------------
(* Inputs of the scan command *)

AppUsersRoute == AppApi \o <<"u","s","e","r","s","/","r","o","u","t","e",".","t","s">>

PagesUserById == PagesApi \o <<"u","s","e","r","s","/","[","i","d","]",".","t","s">>

\* the function declarations of a file that parses
DeclLists ==
    { <<>>,
      <<Decl(GET, TRUE, FALSE)>>,
      <<Decl(POST, TRUE, FALSE)>>,
      <<Decl(GET, TRUE, FALSE), Decl(DELETE, TRUE, FALSE)>>,
      <<Decl(GET, FALSE, FALSE)>>,
      <<Decl(Helper, TRUE, FALSE), Decl(GET, FALSE, TRUE)>>,
      <<Decl(Helper, TRUE, FALSE)>> }

\* what the parser recovers from a file with a syntax error
RecoveredDeclLists == { <<>>, <<Decl(GET, TRUE, FALSE)>> }

RouteFiles(p) ==
    { RouteFile(p, "ok", d) : d \in DeclLists }
    \cup { RouteFile(p, "syntaxError", d) : d \in RecoveredDeclLists }
    \cup { RouteFile(p, "missing", <<>>), RouteFile(p, "unreadable", <<>>) }

\* glob() returns the app routes before the pages routes
FileLists ==
    { <<>> }
    \cup { <<f>> : f \in RouteFiles(AppUsersRoute) }
    \cup { <<f, g>> : f \in RouteFiles(AppUsersRoute), g \in RouteFiles(PagesUserById) }

\* a carla-tools.json written by an earlier scan
ExistingConfig ==
    FileOf("object", Some("1.0.0"), Some("earlier"), Some(<<CleanTool>>),
           Some("/api/_carla/mcp"))

ExistingFiles == { AbsentFile, InvalidFile, NullFile, FalsyFile, ExistingConfig }

---------------------------------------------------------------------------
(* The scan command *)

InitScan ==
    /\ pc = "scanCmd"
    /\ NoPipeline
    /\ NoEnv
    /\ files \in FileLists
    /\ routes = <<>>
    /\ options \in { [force |-> f, dryRun |-> FALSE] : f \in BOOLEAN }
    /\ toolsFile \in ExistingFiles
    /\ fileBefore = toolsFile
    /\ exit = "running"
    /\ uploaded = None
    /\ config = NoConfig

\* if (!options.force && configManager.hasTools()) return
ScanCheckExisting ==
    /\ pc = "scanCmd"
    /\ IF ~options.force /\ hasTools(toolsFile)
       THEN pc' = "done" /\ exit' = "ok"
       ELSE pc' = "scanning" /\ exit' = exit
    /\ UNCHANGED <<pipeVars, envVars, files, routes, options, toolsFile, fileBefore,
                   uploaded, config>>

\* routes = await scanner.scan(); an exception reaches the catch block: process.exit(1)
ScanProject ==
    /\ pc = "scanning"
    /\ IF scanThrows(files)
       THEN pc' = "done" /\ exit' = "fail" /\ routes' = routes
       ELSE pc' = "scannedAll" /\ exit' = exit /\ routes' = scan(files)
    /\ UNCHANGED <<pipeVars, envVars, files, options, toolsFile, fileBefore, uploaded, config>>

\* no routes: return; else generate the tools and saveTools(toolsConfig)
ScanSave ==
    /\ pc = "scannedAll"
    /\ toolsFile' = IF routes = <<>> THEN toolsFile
                    ELSE NewToolsConfig(generateRoutes(routes))
    /\ pc' = "done"
    /\ exit' = "ok"
    /\ UNCHANGED <<pipeVars, envVars, files, routes, options, fileBefore, uploaded, config>>

NextScan == ScanCheckExisting \/ ScanProject \/ ScanSave

SpecScan == InitScan /\ [][NextScan]_vars

---------------------------------------------------------------------------
(* ToolGenerator.generate on a RouteInfo whose methods carry body params *)

\* a ParamInfo of a request body
BodyParam(name, type, required, description) ==
    [name |-> name, type |-> type, required |-> required, description |-> description]

Email == <<"e","m","a","i","l">>

BodyParamLists ==
    { <<>>,
      <<BodyParam(Email, "string", TRUE, <<>>)>>,
      <<BodyParam(Email, "string", FALSE, <<"E-mail address">>)>>,
      <<BodyParam(<<"i","d">>, "string", TRUE, <<>>)>>,
      <<BodyParam(<<"i","d">>, "number", FALSE, <<>>)>>,
      <<BodyParam(Email, "string", TRUE, <<>>), BodyParam(<<"a","g","e">>, "number", FALSE, <<>>)>> }

\* the MethodInfo of a handler of the route file p, with the given body params
MethodInfoOf(p, verb, bodyParams, hasAuth) ==
    [method |-> verb, endpoint |-> pathToEndpoint(p), params |-> extractParams(p),
     bodyParams |-> bodyParams, hasAuth |-> hasAuth]

InitGen ==
    /\ pc = "scanned"
    /\ relativePath \in {AppUsersRoute, PagesUserById}
    /\ handlers = <<>>
    /\ fileHasAuth \in BOOLEAN
    /\ methods \in { <<MethodInfoOf(relativePath, v, b, fileHasAuth)>> :
                        v \in HttpMethods, b \in BodyParamLists }
    /\ tools = <<>>
    /\ original = <<>>
    /\ inputTools = <<>>
    /\ results = <<>>
    /\ passes = 0
    /\ NoCommand
    /\ NoEnv

NextGen == Generate

SpecGen == InitGen /\ [][NextGen]_vars

---------------------------------------------------------------------------
(* The fix command *)

\* A tool object without a parameters member (the type "missing" stands for
\* the absent member): tool.parameters.properties throws a TypeError.
MalformedTool ==
    [CleanTool EXCEPT !.parameters = [type |-> "missing", properties |-> <<>>, required |-> <<>>]]

\* fixParameterDescriptions reads tool.parameters.properties of every tool
fixToolThrows(tool) == tool.parameters.type = "missing"

fixAllThrows(ts) == \E i \in DOMAIN ts : fixToolThrows(ts[i])

\* tools on GET /api/users/:id without parameters: every name, id, description and issue list
FixCmdTools ==
    { t \in ToolInputs : /\ t.method = GET
                         /\ t.endpoint = UsersById
                         /\ t.instruction # <<>>
                         /\ t.parameters.properties = <<>> }

FixCmdToolLists ==
    { <<>>, <<MalformedTool>>, <<CleanTool, MalformedTool>> }
    \cup { <<t>> : t \in FixCmdTools }
    \cup { <<t, MalformedTool>> : t \in FixCmdTools }

\* the JSON objects carla-tools.json can hold: tools is None when the value has
\* no array member tools, version and settings are None when they are missing
FixCmdObjects ==
    { FileOf("object", v, IF v = None THEN None ELSE Some("earlier"), ts, st) :
        v  \in {None, Some("1.0.0")},
        ts \in {None} \cup { Some(l) : l \in FixCmdToolLists },
        st \in {None, Some("/api/_carla/mcp")} }

FixCmdFiles == { AbsentFile, InvalidFile, NullFile, FalsyFile } \cup FixCmdObjects

InitFixCmd ==
    /\ pc = "fixCmd"
    /\ NoPipeline
    /\ NoEnv
    /\ files = <<>>
    /\ routes = <<>>
    /\ options \in { [force |-> FALSE, dryRun |-> d] : d \in BOOLEAN }
    /\ toolsFile \in FixCmdFiles
    /\ fileBefore = toolsFile
    /\ exit = "running"
    /\ uploaded = None
    /\ config = NoConfig

\* fixCommand ends in process.exit(1): loadTools() gave a falsy value, or the
\* try block threw (no array toolsConfig.tools, or fixTool threw)
FixCommandFails(toolsConfig) ==
    \/ IsFalsy(toolsConfig)
    \/ toolsConfig.tools = None
    \/ fixAllThrows(Get(toolsConfig.tools))

\* fixedTools.length > 0
AnyFixed(rs) == \E i \in DOMAIN rs : rs[i].fixed

\* a variant of FixCommandFile that saves the fixed tools even under --dry-run
FixCommandFile_IgnoreDryRun(file, toolsConfig, rs, dryRun) ==
    IF AnyFixed(rs)
    THEN UpdatedConfig(toolsConfig, [i \in DOMAIN rs |-> rs[i].tool])
    ELSE file

\* what fixCommand leaves in carla-tools.json after fixAll returned rs
FixCommandFile(file, toolsConfig, rs, dryRun) ==
    IF AnyFixed(rs) /\ ~dryRun
    THEN UpdatedConfig(toolsConfig, [i \in DOMAIN rs |-> rs[i].tool])
    ELSE file

FixCommand ==
    /\ pc = "fixCmd"
    /\ IF FixCommandFails(loadTools(toolsFile))
       THEN /\ exit' = "fail"
            /\ UNCHANGED <<toolsFile, inputTools, results, tools>>
       ELSE /\ inputTools' = Get(loadTools(toolsFile).tools)
            /\ results' = fixAll(inputTools')
            /\ tools' = [i \in DOMAIN results' |-> results'[i].tool]
            /\ toolsFile' = FixCommandFile(toolsFile, loadTools(toolsFile), results',
                                           options.dryRun)
            /\ exit' = "ok"
    /\ pc' = "done"
    /\ UNCHANGED <<scanVars, methods, original, passes, envVars, files, routes, options,
                   fileBefore, uploaded, config>>

NextFixCmd == FixCommand

SpecFixCmd == InitFixCmd /\ [][NextFixCmd]_vars

---------------------------------------------------------------------------
(* The sync command *)

\* a NEXT_PUBLIC_CARLA_API_KEY that decodeApiKey accepts, and one it rejects
ValidApiKey == "b3JnMTIzOmFzc3Q0NTY="
BadApiKey   == "bm9wYXJ0cw=="

\* decodeApiKey throws unless the decoded key has 2 or 4 parts and an orgId
decodeApiKeyThrows(apiKey) == apiKey # ValidApiKey

\* a variant of toolsToSync that uploads every tool of the file
toolsToSync_All(ts) == ts

\* toolsConfig.tools.filter(t => t.enabled)
toolsToSync(ts) == SelectSeq(ts, LAMBDA t : t.enabled)

\* updateLastSync: written only when .carla/config.json can be loaded
updateLastSync(cfg, timestamp) ==
    IF cfg.exists THEN [cfg EXCEPT !.lastSync = Some(timestamp)] ELSE cfg

\* getLastSync: config?.lastSync || null
getLastSync(cfg) == IF cfg.exists THEN cfg.lastSync ELSE None

DeleteTool ==
    [CleanTool EXCEPT !.id = <<"d","e","l","_","u">>, !.name = <<"d","e","l","_","u">>,
                      !.method = DELETE, !.issues = Some(<<"destructive_operation">>)]

PostTool ==
    [CleanTool EXCEPT !.id = <<"a","d","d","_","u">>, !.name = <<"a","d","d","_","u">>,
                      !.method = POST, !.endpoint = Users]

\* the tools of a carla-tools.json whose enabled flags the user has edited
SyncTools == { [t EXCEPT !.enabled = e] : t \in {CleanTool, DeleteTool, PostTool}, e \in BOOLEAN }

SyncToolLists ==
    { <<>> }
    \cup { <<t>> : t \in SyncTools }
    \cup { l \in SyncTools \X SyncTools : l[1].name # l[2].name }

SyncFiles ==
    { AbsentFile, InvalidFile, NullFile }
    \cup { FileOf("object", Some("1.0.0"), Some("earlier"), ts, Some("/api/_carla/mcp")) :
              ts \in {None} \cup { Some(l) : l \in SyncToolLists } }

SyncConfigs ==
    { NoConfig, [exists |-> TRUE, lastSync |-> None], [exists |-> TRUE, lastSync |-> Some("earlier")] }

InitSync ==
    /\ pc = "syncCmd"
    /\ NoPipeline
    /\ envFiles = NoEnvFiles
    /\ processEnv \in { [EmptyEnv EXCEPT !["NEXT_PUBLIC_CARLA_API_KEY"] = k] :
                           k \in {None, Some(BadApiKey), Some(ValidApiKey)} }
    /\ envBefore = processEnv
    /\ files = <<>>
    /\ routes = <<>>
    /\ options = NoOptions
    /\ toolsFile \in SyncFiles
    /\ fileBefore = toolsFile
    /\ exit = "running"
    /\ uploaded = None
    /\ config \in SyncConfigs

\* syncCommand ends in process.exit(1) before any tool is selected: no API key,
\* a key that does not decode, no tools file, or no array toolsConfig.tools
SyncFailsEarly(env, file) ==
    \/ env["NEXT_PUBLIC_CARLA_API_KEY"] = None
    \/ decodeApiKeyThrows(Get(env["NEXT_PUBLIC_CARLA_API_KEY"]))
    \/ IsFalsy(loadTools(file))
    \/ loadTools(file).tools = None

\* syncCommand; apiOk is whether api.syncTools returns (TRUE) or throws (FALSE)
SyncCommand ==
    /\ pc = "syncCmd"
    /\ \E apiOk \in BOOLEAN :
        IF SyncFailsEarly(processEnv, toolsFile)
        THEN exit' = "fail" /\ UNCHANGED <<uploaded, config>>
        ELSE IF toolsToSync(Get(loadTools(toolsFile).tools)) = <<>>
        THEN exit' = "ok" /\ UNCHANGED <<uploaded, config>>
        ELSE /\ uploaded' = Some(toolsToSync(Get(loadTools(toolsFile).tools)))
             /\ exit' = IF apiOk THEN "ok" ELSE "fail"
             /\ config' = IF apiOk THEN updateLastSync(config, "now") ELSE config
    /\ pc' = "done"
    /\ UNCHANGED <<pipeVars, envVars, files, routes, options, toolsFile, fileBefore>>

NextSync == SyncCommand

SpecSync == InitSync /\ [][NextSync]_vars

---------------------------------------------------------------------------
(* scan, fix and sync commands run one after another on one project *)

\* the project before the first command: no carla-tools.json, an API key in the
\* environment, .carla/config.json present or not
InitCli ==
    /\ pc = "idle"
    /\ NoPipeline
    /\ envFiles = NoEnvFiles
    /\ processEnv = [EmptyEnv EXCEPT !["NEXT_PUBLIC_CARLA_API_KEY"] = Some(ValidApiKey)]
    /\ envBefore = processEnv
    /\ files \in FileLists
    /\ routes = <<>>
    /\ options = NoOptions
    /\ toolsFile = AbsentFile
    /\ fileBefore = AbsentFile
    /\ exit = "running"
    /\ uploaded = None
    /\ config \in {NoConfig, [exists |-> TRUE, lastSync |-> None]}

\* the user runs carla-nextjs scan [--force], fix [--dry-run] or sync once the
\* previous command has ended
RunCommand ==
    /\ pc \in {"idle", "done"}
    /\ \E cmd \in {"scanCmd", "fixCmd", "syncCmd"}, flag \in BOOLEAN :
        /\ pc' = cmd
        /\ options' = [force |-> cmd = "scanCmd" /\ flag, dryRun |-> cmd = "fixCmd" /\ flag]
    /\ routes' = <<>>
    /\ fileBefore' = toolsFile
    /\ exit' = "running"
    /\ uploaded' = None
    /\ UNCHANGED <<pipeVars, envVars, files, toolsFile, config>>

NextCli ==
    \/ RunCommand
    \/ ScanCheckExisting \/ ScanProject \/ ScanSave
    \/ FixCommand
    \/ SyncCommand

SpecCli == InitCli /\ [][NextCli]_vars

---------------------------------------------------------------------------
(* The environment loader *)

\* the variables an env file defines, None for a variable it does not define
EnvContent(apiKey, apiUrl) ==
    [k \in EnvKeys |-> CASE k = "NEXT_PUBLIC_CARLA_API_KEY" -> apiKey
                         [] k = "API_URL" -> apiUrl
                         [] OTHER -> None]

\* dotenv's config({ path, override: false }): a variable that process.env
\* already has keeps its value, every other variable of the file is set
LoadEnvFile(env, file) ==
    IF file = None THEN env
    ELSE [k \in EnvKeys |-> IF env[k] # None THEN env[k] ELSE Get(file)[k]]

\* process.env.NODE_ENV || 'development'
NodeEnv(env) == IF env["NODE_ENV"] = None THEN "development" ELSE Get(env["NODE_ENV"])

\* loadNextjsEnv: '.env', then `.env.${nodeEnv}`, then '.env.local'; a file that
\* does not exist (None) is skipped
loadNextjsEnv(env, fs) ==
    LoadEnvFile(LoadEnvFile(LoadEnvFile(env, fs[<<".env">>]),
                            fs[<<".env.", NodeEnv(env)>>]),
                fs[<<".env.local">>])

\* what the file f can hold: every variable it defines has the value "from <f>"
EnvFileStates(f) ==
    {None} \cup { Some(EnvContent(a, u)) : a \in {None, Some(ValidApiKey)},
                                           u \in {None, Some(f)} }

InitEnv ==
    /\ pc = "envLoad"
    /\ NoPipeline
    /\ NoCommand
    /\ envFiles \in { fs \in [EnvFileNames -> UNION { EnvFileStates(f) : f \in EnvFileNames }] :
                         \A f \in EnvFileNames : fs[f] \in EnvFileStates(f) }
    /\ processEnv \in { [EmptyEnv EXCEPT !["NODE_ENV"] = n, !["API_URL"] = u] :
                           n \in {None, Some("production")},
                           u \in {None, Some(<<"shell">>)} }
    /\ envBefore = processEnv

LoadNextjsEnv ==
    /\ pc = "envLoad"
    /\ processEnv' = loadNextjsEnv(processEnv, envFiles)
    /\ pc' = "envLoaded"
    /\ UNCHANGED <<pipeVars, cmdVars, envFiles, envBefore>>

NextEnv == LoadNextjsEnv

SpecEnv == InitEnv /\ [][NextEnv]_vars

---------------------------------------------------------------------------
(* Properties *)

Range(seq) == {seq[i] : i \in DOMAIN seq}

IsLowerCase(s) == s = ToLowerCase(s)

\* C1: Fixer idempotence.  Running fixAll on the tools returned by fixAll returns
\* exactly the same tools, and on that second pass every FixResult has
\* fixed = false and an empty fixes list.
C1_FixerIdempotent ==
    passes >= 2 =>
        /\ tools = inputTools
        /\ \A i \in DOMAIN results : ~results[i].fixed /\ results[i].fixes = <<>>

\* C2: Fixer name/id equality.  The tool returned by fixTool has id equal to
\* name, for any input tool, also one whose id differs from its name.
C2_IdEqualsName ==
    passes >= 1 => \A i \in DOMAIN tools : tools[i].id = tools[i].name

\* C3: Naming invariants.  Every generated tool name is entirely lowercase,
\* contains no double underscore, and neither starts nor ends with an underscore.
C3_NamingInvariants ==
    pc = "generated" =>
        \A i \in DOMAIN tools :
            /\ IsLowerCase(tools[i].name)
            /\ ~Includes(tools[i].name, <<"_","_">>)
            /\ ~StartsWith(tools[i].name, <<"_">>)
            /\ ~EndsWith(tools[i].name, <<"_">>)

\* C4: Default enablement.  A generated tool has enabled = false if and only if
\* its method is DELETE, whatever hasAuth, the endpoint and the parameters are.
C4_DefaultEnablement ==
    pc = "generated" =>
        \A i \in DOMAIN tools : tools[i].enabled = FALSE <=> tools[i].method = DELETE

\* C4 witness: one scan generated a disabled DELETE tool beside an enabled GET tool
C4_Witness ==
    /\ pc = "generated"
    /\ \E i, j \in DOMAIN tools :
          /\ tools[i].method = DELETE /\ ~tools[i].enabled
          /\ tools[j].method = GET /\ tools[j].enabled
          /\ tools[j].parameters.properties # <<>>

\* C5: Issue completeness.  A generated tool's issues contain destructive_operation
\* exactly when the verb is DELETE and no_authentication_detected exactly when the
\* verb is POST, PUT, DELETE or PATCH and the file shows no authentication; a DELETE
\* without authentication carries both, in that order, and a GET tool never
\* carries no_authentication_detected.
C5_IssueCompleteness ==
    pc = "generated" =>
        \A i \in DOMAIN tools :
            LET verb == tools[i].method
                iss  == Get(tools[i].issues)
            IN  /\ IsSome(tools[i].issues)
                /\ "destructive_operation" \in Range(iss) <=> verb = DELETE
                /\ "no_authentication_detected" \in Range(iss)
                       <=> (verb \in {POST, PUT, DELETE, PATCH} /\ ~fileHasAuth)
                /\ (verb = DELETE /\ ~fileHasAuth)
                       => iss = <<"destructive_operation", "no_authentication_detected">>
                /\ verb = GET => "no_authentication_detected" \notin Range(iss)
                /\ Range(iss) \subseteq {"destructive_operation", "no_authentication_detected"}

\* C5 witness: a DELETE handler in a file without authentication carries both issues
C5_Witness ==
    /\ pc = "generated"
    /\ ~fileHasAuth
    /\ \E i \in DOMAIN tools :
          /\ tools[i].method = DELETE
          /\ Get(tools[i].issues) = <<"destructive_operation", "no_authentication_detected">>

DescriptionIssues == {"missing_description", "missing_parameter_descriptions"}

\* C6: The Fixer never clears route-behaviour issues.  After any number of
\* consecutive fixAll passes every issue code of the input other than
\* missing_description and missing_parameter_descriptions is still in the issues.
C6_RouteIssuesKept ==
    passes >= 1 =>
        \A i \in DOMAIN original :
            IsSome(original[i].issues) =>
                (Range(Get(original[i].issues)) \ DescriptionIssues)
                    \subseteq Range(Get(tools[i].issues))

\* C6 witness: after the last pass a tool lost its resolved missing_description
\* and still carries destructive_operation
C6_Witness ==
    /\ passes = MaxPasses
    /\ \E i \in DOMAIN original :
          /\ IsSome(original[i].issues)
          /\ {"missing_description", "destructive_operation"}
                 \subseteq Range(Get(original[i].issues))
          /\ "missing_description" \notin Range(Get(tools[i].issues))
          /\ "destructive_operation" \in Range(Get(tools[i].issues))

\* C7: Fixer/Generator description consistency.  The description the Fixer writes
\* into a tool whose description is empty or whitespace is the string the
\* Generator produces for that verb and endpoint.
C7_DescriptionConsistency ==
    passes >= 1 =>
        \A i \in DOMAIN inputTools :
            IsBlank(inputTools[i].description) =>
                tools[i].description
                    = GenGenerateDescription(inputTools[i].endpoint, inputTools[i].method)

\* C8: Required-subset invariant.  For every generated tool, and for that tool
\* after any number of fixAll passes, every entry of parameters.required is a key
\* of parameters.properties.
C8_RequiredSubset ==
    pc \in {"generated", "fixed"} =>
        \A i \in DOMAIN tools :
            Range(tools[i].parameters.required) \subseteq Keys(tools[i].parameters.properties)

\* C8 witness: a generated tool with two required parameters, after the last pass
C8_Witness ==
    /\ pc = "fixed"
    /\ passes = MaxPasses
    /\ methods # <<>>
    /\ \E i \in DOMAIN tools : Cardinality(Range(tools[i].parameters.required)) >= 2

\* a route file placed directly in the API directory
IsRootRouteFile(p) ==
    \E src \in {<<>>, SrcDir}, e \in Extensions :
        \/ p = src \o AppApi \o <<"r","o","u","t","e",".">> \o e
        \/ p = src \o PagesApi \o <<"i","n","d","e","x",".">> \o e

\* C9: Endpoint prefix and root.  The endpoint of every matched route file begins
\* with /api, and for a route file placed directly in the API directory it is
\* exactly /api.
C9_EndpointPrefixAndRoot ==
    pc = "scanned" =>
        \A i \in DOMAIN methods :
            /\ StartsWith(methods[i].endpoint, ApiPrefix)
            /\ IsRootRouteFile(relativePath) => methods[i].endpoint = ApiPrefix

\* the names a1..an of the path segments of the form [a], left to right
BracketedSegmentNames(p) ==
    LET segs == SelectSeq(Split(StripExtension(p), "/"),
                          LAMBDA g : Len(g) >= 3 /\ Head(g) = "[" /\ g[Len(g)] = "]")
    IN  [k \in DOMAIN segs |-> SubSeq(segs[k], 2, Len(segs[k]) - 1)]

\* the names of the endpoint segments of the form :a, left to right
PlaceholderNames(endpoint) ==
    LET segs == SelectSeq(Split(endpoint, "/"), LAMBDA g : StartsWith(g, <<":">>))
    IN  [k \in DOMAIN segs |-> DropFirst(segs[k], 1)]

ScanRan == pc = "done" /\ (options.force \/ ~hasTools(fileBefore))

\* a file that cannot be read or parsed
IsBadFile(file) == file.status \in {"unreadable", "syntaxError"}

GoodFiles(fs) == SelectSeq(fs, LAMBDA f : ~IsBadFile(f))

\* C11: Per-file failure isolation.  When a discovered route file cannot be read
\* or parsed, scan skips only that file and still returns the routes of every
\* other discovered file; the bad file never aborts the scan.  (The warning the
\* claim asks for has no place in the program's state: scan returns RouteInfo[]
\* only.)
C11_FailureIsolation ==
    ScanRan => /\ exit = "ok"
               /\ routes = scan(GoodFiles(files))

\* the declarations the claim counts as handlers: module scope, exported, named after a verb
TopLevelHandlers(decls) ==
    SelectSeq(decls, LAMBDA d : d.exported /\ ~d.nested /\ d.name \in HttpMethods)

\* the verbs of the RouteInfo scan returned for a path, <<>> when it returned none
RouteVerbs(rs, p) ==
    IF \E i \in DOMAIN rs : rs[i].relativePath = p
    THEN LET r == rs[CHOOSE i \in DOMAIN rs : rs[i].relativePath = p]
         IN  [j \in DOMAIN r.methods |-> r.methods[j].method]
    ELSE <<>>

\* C12: Method extraction scope.  For every file that parses, the MethodInfo
\* records extractMethods produces are, one each and in order, those of the
\* function declarations that are at module scope, exported and named GET, POST,
\* PUT, DELETE or PATCH; a nested or non-exported function produces none.
C12_ExtractionScope ==
    pc = "scannedAll" =>
        \A i \in DOMAIN files :
            files[i].status = "ok" =>
                RouteVerbs(routes, files[i].relativePath)
                    = FunctionDeclarations(TopLevelHandlers(files[i].decls))

NamesOf(ps) == {ps[i].name : i \in DOMAIN ps}

RequiredNamesOf(ps) == {ps[i].name : i \in {j \in DOMAIN ps : ps[j].required}}

\* C13: Parameter merge rule.  The keys of a generated tool's
\* parameters.properties are the path-param names, plus the body-param names
\* only when the verb is POST, PUT or PATCH; parameters.required lists exactly
\* the names of those merged params that are marked required.
C13_ParameterMerge ==
    pc = "generated" =>
        \A i \in DOMAIN tools :
            LET m      == methods[i]
                merged == IF m.method \in {POST, PUT, PATCH}
                          THEN m.params \o m.bodyParams ELSE m.params
            IN  /\ Keys(tools[i].parameters.properties) = NamesOf(merged)
                /\ Range(tools[i].parameters.required) = RequiredNamesOf(merged)
                /\ m.method \in {GET, DELETE} =>
                       Keys(tools[i].parameters.properties) = NamesOf(m.params)

\* a PUT on /api/users/:id whose body carries a required and an optional field
C13_Witness ==
    /\ pc = "generated"
    /\ methods[1].method = PUT
    /\ NamesOf(methods[1].params) = {<<"i","d">>}
    /\ Len(methods[1].bodyParams) = 2
    /\ Keys(tools[1].parameters.properties) = {<<"i","d">>, Email, <<"a","g","e">>}
    /\ tools[1].parameters.required = <<<<"i","d">>, Email>>

\* C14: Fix report accuracy.  For every input tool, FixResult.fixed is true
\* exactly when the returned tool differs from the input tool in some field
\* (its issues list included), and fixes is non-empty exactly in that case.
C14_FixReportAccurate ==
    pc = "fixed" =>
        \A i \in DOMAIN results :
            /\ results[i].fixed <=> (results[i].tool # inputTools[i])
            /\ (results[i].fixes # <<>>) <=> (results[i].tool # inputTools[i])

\* C15: The Fixer never invents or removes tools.  fixAll returns exactly one
\* FixResult per input tool, in the same order: the fixed list is as long as
\* the input and its i-th tool is the repair of the i-th input tool.
C15_OneResultPerTool ==
    pc = "fixed" =>
        /\ Len(results) = Len(inputTools)
        /\ Len(tools) = Len(inputTools)
        /\ \A i \in DOMAIN inputTools :
               /\ results[i] = fixTool(inputTools[i])
               /\ tools[i] = results[i].tool
               /\ tools[i].endpoint = inputTools[i].endpoint
               /\ tools[i].method = inputTools[i].method

\* two different tools went through fixAll; only the second needed a fix
C15_Witness ==
    /\ pc = "fixed"
    /\ Len(inputTools) = 2
    /\ inputTools[1] # inputTools[2]
    /\ ~results[1].fixed
    /\ results[2].fixed
    /\ Len(tools) = 2

\* the stored value has every member of ToolsConfig, and each tool has its parameters
HasToolsConfigShape(file) ==
    /\ file.kind = "object"
    /\ file.version # None
    /\ file.generatedAt # None
    /\ file.settings # None
    /\ file.tools # None
    /\ \A i \in DOMAIN Get(file.tools) : Get(file.tools)[i].parameters.type = "object"

\* C16: Malformed tools file.  When carla-tools.json cannot be parsed as JSON or
\* does not have the ToolsConfig shape, the fix command ends with a failure exit
\* and leaves carla-tools.json unchanged.
C16_MalformedFileRejected ==
    (pc = "done" /\ fileBefore.kind # "absent" /\ ~HasToolsConfigShape(fileBefore))
        => /\ exit = "fail"
           /\ toolsFile = fileBefore

\* the positions of the enabled tools in a list
EnabledIndexes(ts) == {i \in DOMAIN ts : ts[i].enabled}

\* C17: Sync uploads enabled tools only.  The list passed to syncTools holds
\* exactly the tools of carla-tools.json with enabled = true, in their order; no
\* disabled tool is uploaded, and when no tool is enabled nothing is uploaded.
C17_SyncEnabledOnly ==
    pc = "done" =>
        /\ uploaded # None =>
               /\ fileBefore.tools # None
               /\ \A t \in Range(Get(uploaded)) : t.enabled
               /\ \A i \in DOMAIN Get(fileBefore.tools) :
                      Get(fileBefore.tools)[i].enabled
                          => Get(fileBefore.tools)[i] \in Range(Get(uploaded))
               /\ Range(Get(uploaded)) \subseteq Range(Get(fileBefore.tools))
               /\ Len(Get(uploaded)) = Cardinality(EnabledIndexes(Get(fileBefore.tools)))
        /\ (fileBefore.tools # None /\ EnabledIndexes(Get(fileBefore.tools)) = {})
               => uploaded = None
        /\ (exit = "ok" /\ EnabledIndexes(Get(fileBefore.tools)) # {}) => uploaded # None

\* a file with a disabled DELETE tool and an enabled GET tool: only the second is uploaded
C17_Witness ==
    /\ pc = "done"
    /\ exit = "ok"
    /\ fileBefore.tools = Some(<<[DeleteTool EXCEPT !.enabled = FALSE], CleanTool>>)
    /\ uploaded = Some(<<CleanTool>>)

\* the positions of the naming messages in a list of fix messages
NamingFixes(fixes) == {j \in DOMAIN fixes : Head(fixes[j]) = "Fixed naming: "}

\* C18: Fixer name normalization.  The name of the tool fixTool returns is
\* lowercase, contains no double underscore and neither starts nor ends with an
\* underscore; when the name was changed, the id is the new name and exactly
\* one naming fix message is recorded.
C18_NameNormalized ==
    pc = "fixed" =>
        \A i \in DOMAIN results :
            LET name == results[i].tool.name
            IN  /\ IsLowerCase(name)
                /\ ~Includes(name, <<"_","_">>)
                /\ ~StartsWith(name, <<"_">>)
                /\ ~EndsWith(name, <<"_">>)
                /\ name # inputTools[i].name =>
                       /\ results[i].tool.id = name
                       /\ Cardinality(NamingFixes(results[i].fixes)) = 1
                       /\ <<"Fixed naming: ">> \o inputTools[i].name \o <<" -> ">> \o name
                              \in Range(results[i].fixes)
                /\ name = inputTools[i].name => NamingFixes(results[i].fixes) = {}

\* the name __A_b__ with another id was repaired to a_b, and the id followed
C18_Witness ==
    /\ pc = "fixed"
    /\ \E i \in DOMAIN results :
           /\ inputTools[i].name = <<"_","_","A","_","b","_","_">>
           /\ inputTools[i].id = OtherId
           /\ results[i].tool.name = <<"a","_","b">>
           /\ results[i].tool.id = <<"a","_","b">>

\* the env files loadNextjsEnv looks at, highest priority first
EnvPriority(env) == << <<".env.local">>, <<".env.", NodeEnv(env)>>, <<".env">> >>

\* the file f exists and defines the variable k
Defines(fs, f, k) == fs[f] # None /\ Get(fs[f])[k] # None

\* C19: Environment file priority.  When a variable that the environment does
\* not have yet is defined in more than one of .env, .env.<NODE_ENV> and
\* .env.local, it ends up with the value of the highest-priority file that
\* defines it: .env.local first, then .env.<NODE_ENV>, then .env.
C19_EnvFilePriority ==
    pc = "envLoaded" =>
        \A k \in EnvKeys :
            LET prio     == EnvPriority(envBefore)
                defining == {i \in DOMAIN prio : Defines(envFiles, prio[i], k)}
            IN  (envBefore[k] = None /\ Cardinality(defining) > 1) =>
                    \E i \in defining :
                        /\ \A j \in defining : i <= j
                        /\ processEnv[k] = Get(envFiles[prio[i]])[k]

\* C20: Scan does not clobber existing tools without --force.  If a
\* carla-tools.json that loadTools can read to a value already exists, scan
\* without --force leaves the file unchanged; and a scan, with or without
\* --force, that discovers no route file leaves the file unchanged and does not
\* end with a failure exit.
C20_ScanKeepsExistingFile ==
    /\ (~options.force /\ fileBefore.kind \in {"object", "falsy"}) => toolsFile = fileBefore
    /\ files = <<>> => /\ toolsFile = fileBefore
                       /\ exit # "fail"
                       /\ pc = "done" => exit = "ok"

\* scan without --force ended with the earlier file in place, although the
\* project holds a route that scanning would have turned into a tool
C20_Witness ==
    /\ pc = "done"
    /\ ~options.force
    /\ fileBefore = ExistingConfig
    /\ toolsFile = ExistingConfig
    /\ ~scanThrows(files)
    /\ scan(files) # <<>>

C22_UniqueToolIds ==
    (pc = "done" /\ exit = "ok" /\ routes # <<>>) =>
        \A i, j \in DOMAIN Get(toolsFile.tools) :
            i # j => /\ Get(toolsFile.tools)[i].id # Get(toolsFile.tools)[j].id
                     /\ Get(toolsFile.tools)[i].name # Get(toolsFile.tools)[j].name

\* the path segments of a route file below its API directory: the extension, a
\* leading src, the router's two directory names and a trailing route or index
\* segment removed
SegmentsBelowApi(p) ==
    LET all   == Split(StripExtension(p), "/")
        noSrc == IF all # <<>> /\ Head(all) = <<"s","r","c">> THEN Tail(all) ELSE all
        below == SubSeq(noSrc, 3, Len(noSrc))
    IN  IF below # <<>> /\ below[Len(below)] \in {<<"r","o","u","t","e">>, <<"i","n","d","e","x">>}
        THEN SubSeq(below, 1, Len(below) - 1)
        ELSE below

\* [x] rewritten to :x
EndpointSegment(g) ==
    IF Len(g) >= 3 /\ Head(g) = "[" /\ g[Len(g)] = "]"
    THEN <<":">> \o SubSeq(g, 2, Len(g) - 1)
    ELSE g

RECURSIVE JoinEndpoint(_)
JoinEndpoint(segs) ==
    IF segs = <<>> THEN <<>>
    ELSE <<"/">> \o EndpointSegment(Head(segs)) \o JoinEndpoint(Tail(segs))

\* C23: Endpoint structure.  For every route file with at least one path
\* segment below the API directory, the endpoint is /api followed by '/' and
\* each remaining segment in order, with [x] rewritten to :x, whether or not the
\* file is nested under src/ and whatever the segments are named.
C23_EndpointStructure ==
    (pc = "scanned" /\ SegmentsBelowApi(relativePath) # <<>>) =>
        \A i \in DOMAIN methods :
            methods[i].endpoint = ApiPrefix \o JoinEndpoint(SegmentsBelowApi(relativePath))

\* C24: Generator description and instruction agree.  For every generated GET
\* tool the description is the single-resource form exactly when the
\* instruction is the single-resource form; otherwise both are the list form.
C24_GetFormsAgree ==
    pc = "generated" =>
        \A i \in DOMAIN tools :
            tools[i].method = GET =>
                LET r == GenExtractResourceName(tools[i].endpoint)
                IN  \/ /\ tools[i].description = <<"Get ">> \o r \o <<" by ID">>
                       /\ tools[i].instruction =
                              <<"Use this tool when the user asks about a specific ">> \o r
                                  \o <<". Requires the ID.">>
                    \/ /\ tools[i].description = <<"List all ">> \o r
                       /\ tools[i].instruction =
                              <<"Use this tool when the user asks to see all ">> \o r
                                  \o <<" or list ">> \o r \o <<".">>


\* C25: Parameter descriptions are complete after a fix.  Every property of the
\* tool returned by fixTool has a description that is non-empty, not only
\* whitespace and not the placeholder "The {name} parameter", and the output
\* issues list never contains missing_parameter_descriptions.
C25_ParamDescriptionsComplete ==
    passes >= 1 =>
        \A i \in DOMAIN tools :
            /\ \A k \in DOMAIN tools[i].parameters.properties :
                   LET prop == tools[i].parameters.properties[k]
                   IN  /\ prop.description # <<>>
                       /\ ~TrimIsEmpty(prop.description)
                       /\ prop.description # <<"The ">> \o prop.name \o <<" parameter">>
            /\ IsSome(tools[i].issues) =>
                   "missing_parameter_descriptions" \notin Range(Get(tools[i].issues))

\* C26: Fixer/Generator instruction consistency.  The instruction the Fixer writes
\* into a tool whose instruction is empty or whitespace is the string the
\* Generator produces for that verb and endpoint.
C26_InstructionConsistency ==
    passes >= 1 =>
        \A i \in DOMAIN inputTools :
            IsBlank(inputTools[i].instruction) =>
                tools[i].instruction
                    = GenGenerateInstruction(inputTools[i].endpoint, inputTools[i].method)


C28_NoDeleteUploaded ==
    IsSome(uploaded) => \A i \in DOMAIN Get(uploaded) : Get(uploaded)[i].method # DELETE

\* a sync that uploaded tools of a carla-tools.json which holds a DELETE tool
C28_Witness ==
    /\ pc = "done" /\ IsSome(uploaded) /\ Get(uploaded) # <<>>
    /\ exit = "ok"
    /\ toolsFile.kind = "object"
    /\ \E i \in DOMAIN Get(toolsFile.tools) : Get(toolsFile.tools)[i].method = DELETE


\* C29: Resolved issues are dropped from the persisted file.  After a fix command
\* without --dry-run that completes successfully, no tool of carla-tools.json with
\* a non-empty description carries missing_description and no issues list holds
\* a duplicate, also when the issues lists are all the Fixer changes.
C29_ResolvedIssuesDropped ==
    (pc = "done" /\ exit = "ok" /\ ~options.dryRun /\ inputTools # <<>>) =>
        \A i \in DOMAIN Get(toolsFile.tools) :
            LET t == Get(toolsFile.tools)[i]
            IN  IsSome(t.issues) =>
                    /\ t.description # <<>> =>
                           "missing_description" \notin Range(Get(t.issues))
                    /\ \A j, k \in DOMAIN Get(t.issues) :
                           j # k => Get(t.issues)[j] # Get(t.issues)[k]


\* C30: Last-sync bookkeeping.  After a sync command whose upload succeeds,
\* getLastSync returns the timestamp of that sync, whether or not
\* .carla/config.json existed before; after a sync whose upload fails the stored
\* last-sync value is unchanged.
C30_LastSyncRecorded ==
    [][ (pc = "syncCmd" /\ pc' = "done") =>
            /\ (IsSome(uploaded') /\ exit' = "ok") => getLastSync(config') = Some("now")
            /\ exit' = "fail" => config' = config ]_vars

==============================================================================
